---- MODULE Spec2Model ----
(***************************************************************************)
(* Model of febraban_code.FebrabanCode: parsing, check digits, encoding    *)
(* and validation of 44-digit "bar" and 47-digit "line" payment codes.     *)
(*                                                                         *)
(* A Python str is a sequence of characters.  A character is one of the    *)
(* names below: the ASCII digits "0".."9", the separators ".", " " and     *)
(* "-", "ar3" for U+0663 (ARABIC-INDIC DIGIT THREE, a decimal digit) and   *)
(* "sup2" for U+00B2 (SUPERSCRIPT TWO: str.isdigit() is True, the regular  *)
(* expression class \d does not match it, int() rejects it).               *)
(***************************************************************************)
EXTENDS Integers, Sequences, FiniteSets, TLC

VARIABLES bar_code, status, code_info, ret, number, dv_ret

vars == <<bar_code, status, code_info, ret, number, dv_ret>>

(***************************************************************************)
(* Characters and the conversions between characters and integers.         *)
(***************************************************************************)
DigitChars == <<"0", "1", "2", "3", "4", "5", "6", "7", "8", "9">>

AsciiDigits == {DigitChars[i] : i \in 1..10}

Separators == {".", " ", "-"}

\* str.isdigit() of one character
isdigit(char) == char \in AsciiDigits \cup {"ar3", "sup2"}

\* the regular expression class \d on one character (Unicode decimal digits)
re_d(char) == char \in AsciiDigits \cup {"ar3"}

\* int() of one decimal digit character
int_char(char) ==
    IF char = "ar3" THEN 3
    ELSE CHOOSE n \in 0..9 : DigitChars[n + 1] = char

\* int() of a string of decimal digit characters
RECURSIVE int_str(_)
int_str(s) ==
    IF Len(s) = 0 THEN 0
    ELSE 10 * int_str(SubSeq(s, 1, Len(s) - 1)) + int_char(s[Len(s)])

\* str() of a non-negative integer, as an f-string formats it
RECURSIVE str_int(_)
str_int(n) ==
    IF n < 10 THEN <<DigitChars[n + 1]>>
    ELSE Append(str_int(n \div 10), DigitChars[(n % 10) + 1])

\* "".join(char for char in code if char.isdigit())
keep_digits(code) == SelectSeq(code, isdigit)

\* s[::-1]
reversed(s) == [i \in 1..Len(s) |-> s[Len(s) + 1 - i]]

\* lst * k for a list
RECURSIVE repeat(_, _)
repeat(lst, k) == IF k <= 0 THEN <<>> ELSE lst \o repeat(lst, k - 1)

(***************************************************************************)
(* Python values that are an int in one record and a str in another (the   *)
(* "dv" of a field): both shapes carry the same record fields.             *)
(***************************************************************************)
PyStr(s) == [t |-> "str", s |-> s, n |-> 0]

PyInt(n) == [t |-> "int", s |-> <<>>, n |-> n]

\* f"{v}"
fmt(v) == IF v.t = "str" THEN v.s ELSE str_int(v.n)

\* int(v)
int_of(v) == IF v.t = "int" THEN v.n ELSE int_str(v.s)

(***************************************************************************)
(* __get_dv_module_10                                                      *)
(***************************************************************************)
RECURSIVE dv10_loop(_, _, _, _)
RECURSIVE dv10_loop_raw(_, _, _, _)
dv10_loop(rev, multipliers, count, total) ==
    IF count > Len(rev) THEN total
    ELSE LET product == int_char(rev[count]) * multipliers[count]
         IN  dv10_loop(rev, multipliers, count + 1,
                       total + (IF product < 10 THEN product
                                ELSE (product \div 10) + (product % 10)))

\* mutant: a product of 10 or more is added as it is
dv10_loop_raw(rev, multipliers, count, total) ==
    IF count > Len(rev) THEN total
    ELSE dv10_loop_raw(rev, multipliers, count + 1,
                       total + int_char(rev[count]) * multipliers[count])

get_dv_module_10_raw(num) ==
    LET multipliers == repeat(<<2, 1>>, (Len(num) + 1) \div 2)
        total == dv10_loop_raw(reversed(num), multipliers, 1, 0)
        remainder == total % 10
    IN  IF remainder # 0 THEN 10 - remainder ELSE 0

get_dv_module_10(num) ==
    LET multipliers == repeat(<<2, 1>>, (Len(num) + 1) \div 2)
        total == dv10_loop(reversed(num), multipliers, 1, 0)
        remainder == total % 10
    IN  IF remainder # 0 THEN 10 - remainder ELSE 0

(***************************************************************************)
(* __get_dv_module_11                                                      *)
(***************************************************************************)
RECURSIVE dv11_total(_, _, _, _)
RECURSIVE dv11_total_wrap10(_, _, _, _)
dv11_total(num, digit, multiplier, total) ==
    IF digit > Len(num) THEN total
    ELSE LET m1 == IF multiplier = 2 THEN 10 ELSE multiplier
         IN  dv11_total(num, digit + 1, m1 - 1,
                        total + int_char(num[digit]) * multiplier)

\* mutant: the multiplier wraps from 2 to 10
dv11_total_wrap10(num, digit, multiplier, total) ==
    IF digit > Len(num) THEN total
    ELSE LET m1 == IF multiplier = 2 THEN 11 ELSE multiplier
         IN  dv11_total_wrap10(num, digit + 1, m1 - 1,
                               total + int_char(num[digit]) * multiplier)

get_dv_module_11_wrap10(num) ==
    LET total == dv11_total_wrap10(num, 1, 4, 0)
        dv == 11 - (total % 11)
    IN  IF dv \in {0, 10, 11} THEN 1 ELSE dv

get_dv_module_11(num) ==
    LET total == dv11_total(num, 1, 4, 0)
        dv == 11 - (total % 11)
    IN  IF dv \in {0, 10, 11} THEN 1 ELSE dv

(***************************************************************************)
(* __get_expiry: date(1997, 10, 7) + timedelta(days=int(expiry_factor)).   *)
(* Dates are proleptic Gregorian ordinals, as in datetime.date.            *)
(***************************************************************************)
days_in_month == <<31, 28, 31, 30, 31, 30, 31, 31, 30, 31, 30, 31>>

is_leap(year) == (year % 4 = 0) /\ ((year % 100 # 0) \/ (year % 400 = 0))

days_before_year(year) ==
    LET y == year - 1
    IN  y * 365 + (y \div 4) - (y \div 100) + (y \div 400)

RECURSIVE days_before_month(_, _)
days_before_month(year, month) ==
    IF month = 1 THEN 0
    ELSE days_before_month(year, month - 1) + days_in_month[month - 1]
         + (IF month - 1 = 2 /\ is_leap(year) THEN 1 ELSE 0)

ymd2ord(year, month, day) ==
    days_before_year(year) + days_before_month(year, month) + day

ord2ymd(ordinal) ==
    LET n0   == ordinal - 1
        n400 == n0 \div 146097
        r400 == n0 % 146097
        n100 == r400 \div 36524
        r100 == r400 % 36524
        n4   == r100 \div 1461
        r4   == r100 % 1461
        n1   == r4 \div 365
        n    == r4 % 365
        year == n400 * 400 + 1 + n100 * 100 + n4 * 4 + n1
        leapyear == (n1 = 3) /\ ((n4 # 24) \/ (n100 = 3))
        month0 == (n + 50) \div 32
        preceding0 == (days_before_month(1, month0)
                       + (IF month0 > 2 /\ leapyear THEN 1 ELSE 0))
        back == preceding0 > n
        month == IF back THEN month0 - 1 ELSE month0
        preceding == IF back
                     THEN preceding0 - (days_in_month[month]
                                        + (IF month = 2 /\ leapyear THEN 1 ELSE 0))
                     ELSE preceding0
    IN  IF n1 = 4 \/ n100 = 4
        THEN [year |-> year - 1, month |-> 12, day |-> 31]
        ELSE [year |-> year, month |-> month, day |-> n - preceding + 1]

get_expiry(expiry_factor) ==
    LET base_date == ymd2ord(1997, 10, 7)
    IN  ord2ymd(base_date + int_str(expiry_factor))

(***************************************************************************)
(* __convert_value_factor: float(f"{value[:-2]}.{value[-2:]}").  The float *)
(* is the decimal number units + hundredths / 100.                         *)
(***************************************************************************)
convert_value_factor(value) ==
    [units      |-> int_str(SubSeq(value, 1, Len(value) - 2)),
     hundredths |-> int_str(SubSeq(value, Len(value) - 1, Len(value)))]

(***************************************************************************)
(* re.search of a pattern (\d{w1})(\d{w2})... : the leftmost run of        *)
(* w1 + w2 + ... characters of class \d, cut into the groups.              *)
(***************************************************************************)
RECURSIVE width_sum(_, _)
width_sum(widths, k) ==
    IF k = 0 THEN 0 ELSE width_sum(widths, k - 1) + widths[k]

re_search(widths, text) ==
    LET total  == width_sum(widths, Len(widths))
        starts == {s \in 1..(Len(text) - total + 1) :
                       \A i \in s..(s + total - 1) : re_d(text[i])}
    IN  IF starts = {} THEN [matched |-> FALSE, group |-> <<>>]
        ELSE LET s == CHOOSE x \in starts : \A y \in starts : x <= y
             IN  [matched |-> TRUE,
                  group   |-> [k \in 1..Len(widths) |->
                                 SubSeq(text, s + width_sum(widths, k - 1),
                                        s + width_sum(widths, k) - 1)]]

\* s[:-1] and s[-1]
all_but_last(s) == SubSeq(s, 1, Len(s) - 1)

last_char(s) == SubSeq(s, Len(s), Len(s))

(***************************************************************************)
(* The record self.__code_info, and its extraction from a line or a bar.   *)
(***************************************************************************)
NoInfo ==
    [type |-> "none", bank |-> <<>>, currency |-> <<>>, dv |-> <<>>,
     expiry_factor |-> <<>>, expiry |-> [year |-> 0, month |-> 0, day |-> 0],
     value_factor |-> <<>>, value |-> [units |-> 0, hundredths |-> 0],
     field_1 |-> [info |-> <<>>, dv |-> PyStr(<<>>)],
     field_2 |-> [info |-> <<>>, dv |-> PyStr(<<>>)],
     field_3 |-> [info |-> <<>>, dv |-> PyStr(<<>>)]]

\* mutant: the overall check digit is looked for after the expiry factor
line_widths_dv_late == <<3, 1, 6, 11, 11, 4, 1, 10>>

line_widths == <<3, 1, 6, 11, 11, 1, 4, 10>>

bar_widths == <<3, 1, 1, 4, 10, 5, 10, 10>>

\* a result of the extraction: the record, or the exception raised by
\* match.group on None
Returned(data) == [raised |-> "none", data |-> data]

Raised(exception) == [raised |-> exception, data |-> NoInfo]

get_info_from_line(line) ==
    LET match == re_search(line_widths, line)
        g == match.group
    IN  IF ~match.matched THEN Raised("AttributeError")
        ELSE Returned(
            [type |-> "line",
             bank |-> g[1],
             currency |-> g[2],
             field_1 |-> [info |-> all_but_last(g[3]), dv |-> PyStr(last_char(g[3]))],
             field_2 |-> [info |-> all_but_last(g[4]), dv |-> PyStr(last_char(g[4]))],
             field_3 |-> [info |-> all_but_last(g[5]), dv |-> PyStr(last_char(g[5]))],
             dv |-> g[6],
             expiry_factor |-> g[7],
             expiry |-> get_expiry(g[7]),
             value_factor |-> g[8],
             value |-> convert_value_factor(g[8])])

get_info_from_bar(bar) ==
    LET match == re_search(bar_widths, bar)
        g == match.group
    IN  IF ~match.matched THEN Raised("AttributeError")
        ELSE Returned(
            [type |-> "bar",
             bank |-> g[1],
             currency |-> g[2],
             dv |-> g[3],
             expiry_factor |-> g[4],
             expiry |-> get_expiry(g[4]),
             value_factor |-> g[5],
             value |-> convert_value_factor(g[5]),
             field_1 |-> [info |-> g[6],
                          dv |-> PyInt(get_dv_module_10(g[1] \o g[2] \o g[6]))],
             field_2 |-> [info |-> g[7], dv |-> PyInt(get_dv_module_10(g[7]))],
             field_3 |-> [info |-> g[8], dv |-> PyInt(get_dv_module_10(g[8]))]])

\* __code_match: the argument is [isstr, text]; isstr is FALSE for an
\* argument that is not a str
code_match(code) ==
    IF ~code.isstr THEN [raised |-> "AttributeError", type |-> "none", value |-> <<>>]
    ELSE LET digits == keep_digits(code.text)
         IN  IF Len(digits) \notin {47, 44}
             THEN [raised |-> "ValueError", type |-> "none", value |-> <<>>]
             ELSE [raised |-> "none",
                   type   |-> IF Len(digits) = 47 THEN "line" ELSE "bar",
                   value  |-> digits]

get_info_from_code(code) ==
    IF code.type = "line" THEN get_info_from_line(code.value)
    ELSE get_info_from_bar(code.value)

\* __init__: the record, or the exception that leaves no object behind
init(code) ==
    LET matched == code_match(code)
    IN  IF matched.raised # "none" THEN Raised(matched.raised)
        ELSE get_info_from_code(matched)

(***************************************************************************)
(* get_bar, get_line, validate on a record.                                *)
(***************************************************************************)
\* s[:k] and s[k:]
take(s, k) == SubSeq(s, 1, IF k < Len(s) THEN k ELSE Len(s))

drop(s, k) == SubSeq(s, k + 1, Len(s))

\* mutant: the value factor is put before the expiry factor
get_bar_value_first(info) ==
    info.bank \o info.currency \o info.dv \o info.value_factor
    \o info.expiry_factor
    \o info.field_1.info \o info.field_2.info \o info.field_3.info

get_bar(info) ==
    info.bank \o info.currency \o info.dv \o info.expiry_factor
    \o info.value_factor
    \o info.field_1.info \o info.field_2.info \o info.field_3.info

\* mutant: the unformatted line puts each field's check digit before its payload
get_line_dv_first(info, formatted) ==
    IF formatted
    THEN info.bank \o info.currency
         \o take(info.field_1.info, 1) \o <<".">> \o drop(info.field_1.info, 1)
         \o fmt(info.field_1.dv) \o <<" ">>
         \o take(info.field_2.info, 5) \o <<".">> \o drop(info.field_2.info, 5)
         \o fmt(info.field_2.dv) \o <<" ">>
         \o take(info.field_3.info, 5) \o <<".">> \o drop(info.field_3.info, 5)
         \o fmt(info.field_3.dv) \o <<" ">>
         \o info.dv \o <<" ">>
         \o info.expiry_factor \o info.value_factor
    ELSE info.bank \o info.currency
         \o fmt(info.field_1.dv) \o info.field_1.info
         \o fmt(info.field_2.dv) \o info.field_2.info
         \o fmt(info.field_3.dv) \o info.field_3.info
         \o info.dv \o info.expiry_factor \o info.value_factor

\* mutant: the formatted line loses the digit after the "." of field 2
get_line_dot_eats_digit(info, formatted) ==
    IF formatted
    THEN info.bank \o info.currency
         \o take(info.field_1.info, 1) \o <<".">> \o drop(info.field_1.info, 1)
         \o fmt(info.field_1.dv) \o <<" ">>
         \o take(info.field_2.info, 5) \o <<".">> \o drop(info.field_2.info, 6)
         \o fmt(info.field_2.dv) \o <<" ">>
         \o take(info.field_3.info, 5) \o <<".">> \o drop(info.field_3.info, 5)
         \o fmt(info.field_3.dv) \o <<" ">>
         \o info.dv \o <<" ">>
         \o info.expiry_factor \o info.value_factor
    ELSE info.bank \o info.currency
         \o info.field_1.info \o fmt(info.field_1.dv)
         \o info.field_2.info \o fmt(info.field_2.dv)
         \o info.field_3.info \o fmt(info.field_3.dv)
         \o info.dv \o info.expiry_factor \o info.value_factor

get_line(info, formatted) ==
    IF formatted
    THEN info.bank \o info.currency
         \o take(info.field_1.info, 1) \o <<".">> \o drop(info.field_1.info, 1)
         \o fmt(info.field_1.dv) \o <<" ">>
         \o take(info.field_2.info, 5) \o <<".">> \o drop(info.field_2.info, 5)
         \o fmt(info.field_2.dv) \o <<" ">>
         \o take(info.field_3.info, 5) \o <<".">> \o drop(info.field_3.info, 5)
         \o fmt(info.field_3.dv) \o <<" ">>
         \o info.dv \o <<" ">>
         \o info.expiry_factor \o info.value_factor
    ELSE info.bank \o info.currency
         \o info.field_1.info \o fmt(info.field_1.dv)
         \o info.field_2.info \o fmt(info.field_2.dv)
         \o info.field_3.info \o fmt(info.field_3.dv)
         \o info.dv \o info.expiry_factor \o info.value_factor

\* mutant: the check digit of field 3 is not compared
validate_without_dv3(info) ==
    LET dv1_string == info.bank \o info.currency \o info.field_1.info
        dv1_is_valid == get_dv_module_10(dv1_string) = int_of(info.field_1.dv)
        dv2_is_valid == get_dv_module_10(info.field_2.info) = int_of(info.field_2.dv)
        bar == get_bar(info)
        dv_line_is_valid ==
            get_dv_module_11(take(bar, 4) \o drop(bar, 5)) = int_str(info.dv)
    IN  IF ~(dv1_is_valid /\ dv2_is_valid /\ dv_line_is_valid)
        THEN FALSE
        ELSE TRUE

\* mutant: the overall check digit is not compared
validate_without_dv_line(info) ==
    LET dv1_string == info.bank \o info.currency \o info.field_1.info
        dv1_is_valid == get_dv_module_10(dv1_string) = int_of(info.field_1.dv)
        dv2_is_valid == get_dv_module_10(info.field_2.info) = int_of(info.field_2.dv)
        dv3_is_valid == get_dv_module_10(info.field_3.info) = int_of(info.field_3.dv)
    IN  IF ~(dv1_is_valid /\ dv2_is_valid /\ dv3_is_valid)
        THEN FALSE
        ELSE TRUE

validate(info) ==
    LET dv1_string == info.bank \o info.currency \o info.field_1.info
        dv1_is_valid == get_dv_module_10(dv1_string) = int_of(info.field_1.dv)
        dv2_is_valid == get_dv_module_10(info.field_2.info) = int_of(info.field_2.dv)
        dv3_is_valid == get_dv_module_10(info.field_3.info) = int_of(info.field_3.dv)
        bar == get_bar(info)
        dv_line_is_valid ==
            get_dv_module_11(take(bar, 4) \o drop(bar, 5)) = int_str(info.dv)
    IN  IF ~(dv1_is_valid /\ dv2_is_valid /\ dv3_is_valid /\ dv_line_is_valid)
        THEN FALSE
        ELSE TRUE

(***************************************************************************)
(* The arguments given to the constructor.                                 *)
(***************************************************************************)
MaxTextLen == 49

Text(nums) == [i \in 1..Len(nums) |-> DigitChars[nums[i] + 1]]

Str(text) == [isstr |-> TRUE, text |-> text]

NotAStr == [isstr |-> FALSE, text |-> <<>>]

\* a valid bar code, overall check digit 3
SeedBarA ==
    Text(<<0, 0, 1, 9, 3, 3, 7, 3, 7, 0, 0, 0, 0, 0, 0, 0, 1, 0, 0, 0, 5, 0,
           0, 9, 4, 0, 1, 4, 4, 8, 1, 6, 0, 6, 0, 6, 8, 0, 9, 3, 5, 0, 3, 1>>)

\* a valid bar code, overall check digit 1
SeedBarB ==
    Text(<<0, 8, 3, 1, 1, 2, 4, 0, 2, 3, 4, 4, 8, 3, 4, 7, 8, 2, 4, 5, 0, 4,
           0, 0, 0, 8, 8, 3, 8, 7, 3, 7, 1, 6, 7, 8, 6, 8, 4, 3, 3, 5, 3, 2>>)

\* a valid line, expiry factor 9999
SeedLineA ==
    Text(<<2, 3, 7, 9, 4, 6, 1, 0, 0, 3, 3, 3, 0, 7, 6, 6, 6, 1, 9, 3, 4, 4, 5,
           1, 4, 5, 0, 6, 1, 2, 3, 5, 8, 9, 9, 9, 9, 5, 3, 8, 4, 0, 1, 9, 1, 6,
           1>>)

\* a line whose four check digits are all wrong
SeedLineB ==
    Text(<<1, 2, 3, 4, 5, 6, 7, 8, 9, 0, 1, 2, 3, 4, 5, 6, 7, 8, 9, 0, 1, 2, 3,
           4, 5, 6, 7, 8, 9, 0, 1, 2, 3, 4, 5, 6, 7, 8, 9, 0, 1, 2, 3, 4, 5, 6,
           7>>)

Seeds == {SeedBarA, SeedBarB, SeedLineA, SeedLineB}

\* the seed cut or cyclically extended to n characters
Resize(seed, n) == [i \in 1..n |-> seed[((i - 1) % Len(seed)) + 1]]

\* the text with character c put in front of position p
InsertAt(text, p, c) == SubSeq(text, 1, p - 1) \o <<c>> \o SubSeq(text, p, Len(text))

\* the text with the character at position p replaced by c
ReplaceAt(text, p, c) == [text EXCEPT ![p] = c]

\* the text as a person writes it: separators between the digits
Punctuate(text) ==
    InsertAt(InsertAt(InsertAt(InsertAt(text, 40, "-"), 11, " "), 6, "."), 1, " ")

EndPositions(text) == {1, Len(text)}

ReplacedInputs ==
    UNION {{Str(ReplaceAt(seed, p, c)) : p \in EndPositions(seed),
                                         c \in {"ar3", "sup2", "."}} :
               seed \in {SeedBarB, SeedLineB}}

Inputs ==
    {NotAStr}
    \cup {Str(Resize(seed, n)) : seed \in Seeds, n \in 0..MaxTextLen}
    \cup {Str(Punctuate(seed)) : seed \in {SeedBarA, SeedLineA}}
    \cup ReplacedInputs
    \cup {Str(InsertAt(Resize(SeedBarA, 43), p, "sup2")) : p \in {1, 44}}

(***************************************************************************)
(* The state: two objects "a" and "b".  For each, the argument its         *)
(* constructor got, what the constructor did ("unborn" before it ran,      *)
(* "ok", or the exception it raised), self.__code_info, and the last       *)
(* value a method returned.                                                *)
(***************************************************************************)
Objs == {"a", "b"}

NoRet == [op |-> "none", text |-> <<>>, bool |-> FALSE, info |-> NoInfo]

TextOps == {"get_bar", "get_line", "get_line_formatted"}

Init ==
    /\ bar_code = [o \in Objs |-> NotAStr]
    /\ status = [o \in Objs |-> "unborn"]
    /\ code_info = [o \in Objs |-> NoInfo]
    /\ ret = [o \in Objs |-> NoRet]
    /\ number = <<>>
    /\ dv_ret = [op |-> "none", dv |-> 0]

\* FebrabanCode(arg): object o is constructed, or the exception is raised
\* and there is no object
FebrabanCode(o, arg) ==
    /\ status[o] = "unborn"
    /\ LET r == init(arg)
       IN  /\ bar_code' = [bar_code EXCEPT ![o] = arg]
           /\ status' = [status EXCEPT ![o] = IF r.raised = "none" THEN "ok" ELSE r.raised]
           /\ code_info' = [code_info EXCEPT ![o] = r.data]
    /\ UNCHANGED <<ret, number, dv_ret>>

\* the arguments of the second construction: a text the first object
\* returned, or, after validate(), its own argument with one digit replaced
Derived ==
    (IF ret["a"].op \in TextOps THEN {Str(ret["a"].text)} ELSE {})
    \cup (IF ret["a"].op = "validate"
          THEN {Str(ReplaceAt(bar_code["a"].text, p, c)) :
                    p \in 1..Len(bar_code["a"].text), c \in AsciiDigits}
          ELSE {})

ConstructFirst == \E arg \in Inputs : FebrabanCode("a", arg)

ConstructSecond == \E arg \in Derived : FebrabanCode("b", arg)

\* a method may be called on an object that exists; the first object is
\* used before the second one is constructed
Callable(o) == status[o] = "ok" /\ (o = "a" => status["b"] = "unborn")

GetCodeInfo(o) ==
    /\ Callable(o)
    /\ ret' = [ret EXCEPT ![o] = [NoRet EXCEPT !.op = "get_code_info",
                                               !.info = code_info[o]]]
    /\ UNCHANGED <<bar_code, status, code_info, number, dv_ret>>

GetBar(o) ==
    /\ Callable(o)
    /\ ret' = [ret EXCEPT ![o] = [NoRet EXCEPT !.op = "get_bar",
                                               !.text = get_bar(code_info[o])]]
    /\ UNCHANGED <<bar_code, status, code_info, number, dv_ret>>

GetLine(o, formatted) ==
    /\ Callable(o)
    /\ ret' = [ret EXCEPT ![o] =
                 [NoRet EXCEPT !.op = IF formatted THEN "get_line_formatted"
                                      ELSE "get_line",
                               !.text = get_line(code_info[o], formatted)]]
    /\ UNCHANGED <<bar_code, status, code_info, number, dv_ret>>

\* mutant: validate() stores the check digits it converted back into the record
ValidateStoringInts(o) ==
    /\ Callable(o)
    /\ ret' = [ret EXCEPT ![o] = [NoRet EXCEPT !.op = "validate",
                                               !.bool = validate(code_info[o])]]
    /\ code_info' = [code_info EXCEPT
                       ![o].field_1.dv = PyInt(int_of(code_info[o].field_1.dv)),
                       ![o].field_2.dv = PyInt(int_of(code_info[o].field_2.dv)),
                       ![o].field_3.dv = PyInt(int_of(code_info[o].field_3.dv))]
    /\ UNCHANGED <<bar_code, status, number, dv_ret>>

Validate(o) ==
    /\ Callable(o)
    /\ ret' = [ret EXCEPT ![o] = [NoRet EXCEPT !.op = "validate",
                                               !.bool = validate(code_info[o])]]
    /\ UNCHANGED <<bar_code, status, code_info, number, dv_ret>>

Next ==
    \/ ConstructFirst
    \/ ConstructSecond
    \/ \E o \in Objs : GetCodeInfo(o)
    \/ \E o \in Objs : GetBar(o)
    \/ \E o \in Objs, formatted \in BOOLEAN : GetLine(o, formatted)
    \/ \E o \in Objs : Validate(o)

Spec == Init /\ [][Next]_vars

(***************************************************************************)
(* The check digit functions on their own: a digit string is chosen and    *)
(* each function is applied to it.                                         *)
(***************************************************************************)
MaxMidLen == 2

MaxPadLen == 6

PadDigit(i) == DigitChars[((7 * i) % 10) + 1]

\* every digit string of at most MaxMidLen digits, between two runs of at
\* most MaxPadLen digits of a fixed pattern
Numbers ==
    {[i \in 1..p |-> PadDigit(i)] \o mid \o [i \in 1..q |-> PadDigit(i + 3)] :
        p \in 0..MaxPadLen, q \in 0..MaxPadLen,
        mid \in UNION {[1..n -> AsciiDigits] : n \in 0..MaxMidLen}}

DvInit ==
    /\ bar_code = [o \in Objs |-> NotAStr]
    /\ status = [o \in Objs |-> "unborn"]
    /\ code_info = [o \in Objs |-> NoInfo]
    /\ ret = [o \in Objs |-> NoRet]
    /\ number \in Numbers
    /\ dv_ret = [op |-> "none", dv |-> 0]

CallDvModule10 ==
    /\ dv_ret' = [op |-> "get_dv_module_10", dv |-> get_dv_module_10(number)]
    /\ UNCHANGED <<bar_code, status, code_info, ret, number>>

CallDvModule11 ==
    /\ dv_ret' = [op |-> "get_dv_module_11", dv |-> get_dv_module_11(number)]
    /\ UNCHANGED <<bar_code, status, code_info, ret, number>>

DvNext == CallDvModule10 \/ CallDvModule11

DvSpec == DvInit /\ [][DvNext]_vars

(***************************************************************************)
(* Properties.  The check digits are restated here in closed form, digit   *)
(* by digit, independently of the loops above.                             *)
(***************************************************************************)
RECURSIVE SeqSum(_)
SeqSum(s) == IF Len(s) = 0 THEN 0 ELSE s[1] + SeqSum(Tail(s))

AllDecimal(text) == \A i \in 1..Len(text) : re_d(text[i])

\* modulo 10: right to left, times 2 and 1 alternately, 2 on the rightmost
\* digit; a product of 10 or more counts as the sum of its two digits
Mod10Ref(num) ==
    LET n == Len(num)
        contribution(i) ==
            LET product == int_char(num[i]) * (IF (n - i) % 2 = 0 THEN 2 ELSE 1)
            IN  IF product >= 10 THEN (product \div 10) + (product % 10) ELSE product
        r == SeqSum([i \in 1..n |-> contribution(i)]) % 10
    IN  IF r = 0 THEN 0 ELSE 10 - r

\* the multiplier of the i-th digit from the left: 4, 3, 2, then 9 down to 2
\* again and again
Weight11(i) == IF i <= 3 THEN 5 - i ELSE 9 - ((i - 4) % 8)

\* the multiplier as the specification words it: 4, 3, 2, then 10 down to 2
\* again and again
Weight11Wrap10(i) == IF i <= 3 THEN 5 - i ELSE 10 - ((i - 4) % 9)

WeightedSum11(num) == SeqSum([i \in 1..Len(num) |-> int_char(num[i]) * Weight11(i)])

Mod11Of(sum) ==
    LET dv == 11 - (sum % 11)
    IN  IF dv \in {0, 10, 11} THEN 1 ELSE dv

Mod11Ref(num) == Mod11Of(WeightedSum11(num))

Mod11RefWrap10(num) ==
    Mod11Of(SeqSum([i \in 1..Len(num) |-> int_char(num[i]) * Weight11Wrap10(i)]))

\* C8 as claimed: __get_dv_module_11 multiplies by 4, 3, 2, 10, 9, ..., 2, 10, ...
\* and returns 11 - (sum mod 11), 1 in place of 0, 10 and 11.
C8_Wrap10 ==
    dv_ret.op = "get_dv_module_11" => dv_ret.dv = Mod11RefWrap10(number)

\* C8 amended: __get_dv_module_11 multiplies by 4, 3, 2, 9, 8, ..., 2, 9, ...
\* (the multiplier wraps from 2 back to 9) and returns 11 - (sum mod 11),
\* 1 in place of 0, 10 and 11.
C8_Wrap9 ==
    dv_ret.op = "get_dv_module_11" => dv_ret.dv = Mod11Ref(number)

C8_Witness ==
    /\ dv_ret.op = "get_dv_module_11"
    /\ Len(number) >= 12
    /\ number[4] # "0"
    /\ number[12] # "0"
    /\ dv_ret.dv = 1
    /\ 11 - (WeightedSum11(number) % 11) = 10

\* C10: __get_dv_module_10 returns the modulo-10 check digit as defined, a
\* single digit 0..9, for strings of odd and of even length.
C10_Mod10 ==
    dv_ret.op = "get_dv_module_10" =>
        /\ dv_ret.dv = Mod10Ref(number)
        /\ dv_ret.dv \in 0..9

C10_Witness ==
    /\ dv_ret.op = "get_dv_module_10"
    /\ Len(number) % 2 = 1
    /\ Len(number) >= 3
    /\ number[Len(number)] = "9"
    /\ number[Len(number) - 1] = "7"
    /\ dv_ret.dv # 0

\* the argument of object o is a str of exactly n decimal digits
IsDigits(o, n) ==
    /\ bar_code[o].isstr
    /\ Len(bar_code[o].text) = n
    /\ AllDecimal(bar_code[o].text)

\* C1: a successfully constructed object returns its own 44 digits from
\* get_bar() and its own 47 digits from get_line(formatted=False), whether
\* or not the check digits in them are valid.
C1_SameEncoding ==
    \A o \in Objs :
        status[o] # "unborn" =>
            /\ IsDigits(o, 44) =>
                   /\ status[o] = "ok"
                   /\ ret[o].op = "get_bar" => ret[o].text = bar_code[o].text
            /\ IsDigits(o, 47) =>
                   /\ status[o] = "ok"
                   /\ ret[o].op = "get_line" => ret[o].text = bar_code[o].text

C1_Witness ==
    \E o \in Objs :
        /\ status[o] = "ok"
        /\ IsDigits(o, 44)
        /\ ret[o].op = "get_bar"
        /\ ret[o].text = bar_code[o].text
        /\ ~validate(code_info[o])

\* the second object was constructed from the line the first one, made
\* from 44 digits, returned
LineOfBar ==
    /\ status["a"] = "ok"
    /\ IsDigits("a", 44)
    /\ ret["a"].op = "get_line"
    /\ status["b"] # "unborn"
    /\ bar_code["b"] = Str(ret["a"].text)

\* C2: the line L of a bar B has 47 digits; the record made from L has the
\* bank, currency, overall check digit, expiry factor, value factor and
\* field payloads of the record made from B, and its get_bar() is B.
C2_CrossEncoding ==
    LineOfBar =>
        /\ IsDigits("b", 47)
        /\ status["b"] = "ok"
        /\ code_info["a"].type = "bar"
        /\ code_info["b"].type = "line"
        /\ code_info["b"].bank = code_info["a"].bank
        /\ code_info["b"].currency = code_info["a"].currency
        /\ code_info["b"].dv = code_info["a"].dv
        /\ code_info["b"].expiry_factor = code_info["a"].expiry_factor
        /\ code_info["b"].value_factor = code_info["a"].value_factor
        /\ code_info["b"].field_1.info = code_info["a"].field_1.info
        /\ code_info["b"].field_2.info = code_info["a"].field_2.info
        /\ code_info["b"].field_3.info = code_info["a"].field_3.info
        /\ ret["b"].op = "get_bar" => ret["b"].text = bar_code["a"].text

C2_Witness ==
    /\ LineOfBar
    /\ ret["b"].op = "get_bar"
    /\ ret["b"].text = bar_code["a"].text

\* the 43 digits the overall check digit is computed over
Body43(info) ==
    info.bank \o info.currency \o info.expiry_factor \o info.value_factor
    \o info.field_1.info \o info.field_2.info \o info.field_3.info

\* the four comparisons of validate(), on the closed forms
Field1Matches(info) ==
    Mod10Ref(info.bank \o info.currency \o info.field_1.info) = int_of(info.field_1.dv)

Field2Matches(info) == Mod10Ref(info.field_2.info) = int_of(info.field_2.dv)

Field3Matches(info) == Mod10Ref(info.field_3.info) = int_of(info.field_3.dv)

OverallMatches(info) ==
    /\ Len(Body43(info)) = 43
    /\ Mod11Ref(Body43(info)) = int_str(info.dv)

\* every stored check digit is something int() accepts
Convertible(info) ==
    /\ Len(info.dv) = 1 /\ AllDecimal(info.dv)
    /\ \A f \in {info.field_1, info.field_2, info.field_3} :
           /\ AllDecimal(f.info)
           /\ f.dv.t = "str" => (Len(f.dv.s) = 1 /\ AllDecimal(f.dv.s))

\* C3: validate() returns true exactly when the three modulo-10 field
\* comparisons and the modulo-11 comparison over the 43 digits all match;
\* on a constructed record every conversion it makes is defined.
C3_Validate ==
    \A o \in Objs :
        /\ status[o] = "ok" => Convertible(code_info[o])
        /\ ret[o].op = "validate" =>
               (ret[o].bool <=> /\ Field1Matches(code_info[o])
                                /\ Field2Matches(code_info[o])
                                /\ Field3Matches(code_info[o])
                                /\ OverallMatches(code_info[o]))

C3_Witness ==
    /\ ret["a"].op = "validate" /\ ret["a"].bool
    /\ ret["b"].op = "validate" /\ ~ret["b"].bool
    /\ Field1Matches(code_info["b"])
    /\ Field2Matches(code_info["b"])
    /\ ~Field3Matches(code_info["b"])
    /\ OverallMatches(code_info["b"])

\* the number of decimal digits in a text
DigitCount(text) == Cardinality({i \in 1..Len(text) : re_d(text[i])})

\* C4: the constructor raises AttributeError for an argument that is not a
\* str, makes a bar record of 44 digits, a line record of 47 digits and
\* raises ValueError for every other number of digits; when it raises there
\* is no record.
C4_Classify ==
    \A o \in Objs :
        status[o] # "unborn" =>
            /\ ~bar_code[o].isstr => status[o] = "AttributeError"
            /\ bar_code[o].isstr =>
                   LET n == DigitCount(bar_code[o].text)
                   IN  /\ n = 44 => (status[o] = "ok" /\ code_info[o].type = "bar")
                       /\ n = 47 => (status[o] = "ok" /\ code_info[o].type = "line")
                       /\ n \notin {44, 47} => status[o] = "ValueError"
            /\ status[o] # "ok" => code_info[o] = NoInfo

\* the positions where two texts of one length differ
DiffPositions(s, t) == {i \in 1..Len(s) : s[i] # t[i]}

\* the first object is a bar that validates and the second one was made
\* from its 44 digits with one digit of a field payload replaced
OnePayloadDigitReplaced ==
    /\ status["a"] = "ok"
    /\ IsDigits("a", 44)
    /\ ret["a"].op = "validate"
    /\ ret["a"].bool
    /\ status["b"] = "ok"
    /\ IsDigits("b", 44)
    /\ \E p \in 20..44 : DiffPositions(bar_code["a"].text, bar_code["b"].text) = {p}
    /\ ret["b"].op = "validate"

\* C5 as claimed: replacing one payload digit of a valid bar always makes
\* validate() false.
C5_AlwaysDetected ==
    OnePayloadDigitReplaced => ~ret["b"].bool

\* C5 amended: replacing one payload digit of a valid bar makes validate()
\* false when the overall check digit is not 1; when it is 1, validate()
\* is true exactly when the weighted sum of the new 43 digits is 0, 1 or 10
\* modulo 11 (11, 10 and 1 are all reported as check digit 1).
C5_DetectedUnlessOne ==
    OnePayloadDigitReplaced =>
        /\ int_str(code_info["a"].dv) # 1 => ~ret["b"].bool
        /\ int_str(code_info["a"].dv) = 1 =>
               (ret["b"].bool <=>
                    WeightedSum11(Body43(code_info["b"])) % 11 \in {0, 1, 10})

C5_Witness ==
    /\ OnePayloadDigitReplaced
    /\ int_str(code_info["a"].dv) # 1
    /\ ~ret["b"].bool

\* the text without "." and " "
Stripped(text) == SelectSeq(text, LAMBDA c : c \notin {".", " "})

\* C6: get_line(formatted=True) without its "." and " " is
\* get_line(formatted=False), for bar and for line records.
C6_Formatted ==
    \A o \in Objs :
        ret[o].op = "get_line_formatted" =>
            /\ Stripped(ret[o].text) = get_line(code_info[o], FALSE)
            /\ Len(ret[o].text) = 47 + 7

C6_Witness ==
    /\ ret["a"].op = "get_line_formatted"
    /\ code_info["a"].type = "bar"
    /\ ret["b"].op = "get_line_formatted"
    /\ code_info["b"].type = "line"

\* C7: once an object is constructed no call changes its record, and a
\* method called again returns what it returned before.
C7_ReadOnly ==
    [][\A o \in Objs :
           status[o] = "ok" =>
               /\ status'[o] = "ok"
               /\ bar_code'[o] = bar_code[o]
               /\ code_info'[o] = code_info[o]
               /\ ret'[o].op = ret[o].op => ret'[o] = ret[o]]_vars

C7_Witness ==
    /\ ret["a"].op = "validate"
    /\ ret["b"].op = "get_code_info"
    /\ ret["b"].info = code_info["b"]
    /\ code_info["b"].type = "line"

\* C9 as claimed: the line is cut into 3, 1, 7 (6 + 1), 11 (10 + 1),
\* 11 (10 + 1), 1, 4 and 10 digits.
C9_Field1Block7 ==
    \A o \in Objs :
        (status[o] = "ok" /\ IsDigits(o, 47)) =>
            LET t == bar_code[o].text
                i == code_info[o]
            IN  /\ i.bank = SubSeq(t, 1, 3)
                /\ i.currency = SubSeq(t, 4, 4)
                /\ Len(i.field_1.info) = 6
                /\ Len(i.field_2.info) = 10
                /\ Len(i.field_3.info) = 10
                /\ i.field_1.info = SubSeq(t, 5, 10)
                /\ fmt(i.field_1.dv) = SubSeq(t, 11, 11)

\* C9 amended: the line is cut into 3, 1, 6 (5 + 1), 11 (10 + 1),
\* 11 (10 + 1), 1, 4 and 10 digits, so field_1.info has 5 digits and
\* field_2.info and field_3.info have 10.
C9_Field1Block6 ==
    \A o \in Objs :
        (status[o] = "ok" /\ IsDigits(o, 47)) =>
            LET t == bar_code[o].text
                i == code_info[o]
            IN  /\ i.type = "line"
                /\ i.bank = SubSeq(t, 1, 3)
                /\ i.currency = SubSeq(t, 4, 4)
                /\ i.field_1.info = SubSeq(t, 5, 9)
                /\ i.field_1.dv = PyStr(SubSeq(t, 10, 10))
                /\ i.field_2.info = SubSeq(t, 11, 20)
                /\ i.field_2.dv = PyStr(SubSeq(t, 21, 21))
                /\ i.field_3.info = SubSeq(t, 22, 31)
                /\ i.field_3.dv = PyStr(SubSeq(t, 32, 32))
                /\ i.dv = SubSeq(t, 33, 33)
                /\ i.expiry_factor = SubSeq(t, 34, 37)
                /\ i.value_factor = SubSeq(t, 38, 47)

C9_Witness ==
    \E o \in Objs :
        /\ status[o] = "ok"
        /\ IsDigits(o, 47)
        /\ code_info[o].type = "line"
        /\ Len(code_info[o].field_1.info) = 5
        /\ ret[o].op = "get_code_info"

====
